---- MODULE Spec2Model ----
(***************************************************************************)
(* Complaint analytics of the civic dashboard (src/src/pages/Dashboard.tsx)*)
(* as a state machine.  Two React pages compute derived views from a       *)
(* snapshot of complaint records held in component state:                  *)
(*   - Dashboard       (citizen page, lines 33-80)                         *)
(*   - AdminDashboard  (admin page, lines 236-312), which adds three       *)
(*     filters, the area ranking and the resolution rate.                  *)
(* One page is mounted at a time.  Every state update (a fetch result, a   *)
(* filter selection, a new user from useAuth) is followed by a re-render   *)
(* of the mounted page, which recomputes every derived value from the      *)
(* component state; `view` holds the values of the last render.            *)
(*                                                                         *)
(* Representation of JavaScript values:                                    *)
(*   string            a TLA+ string (ASCII; length = Len)                 *)
(*   number | null     <<>> for null, <<n>> for the number n               *)
(*   array             a sequence                                          *)
(*   Record<string,V>  the sequence of its own properties in creation      *)
(*                     order; Object.entries reorders it (ObjectEntries)   *)
(*   U+2026, U+2022    the one-character stand-ins Ellipsis and Bullet     *)
(***************************************************************************)
EXTENDS Integers, Sequences, FiniteSets, TLC

VARIABLES page, user, complaints, filterCategory, filterPriority,
          filterStatus, inflight, view

vars == <<page, user, complaints, filterCategory, filterPriority,
          filterStatus, inflight, view>>

(***************************************************************************)
(* Bounds of the model.                                                    *)
(***************************************************************************)
\* Longest sequence of pool records appended to a base snapshot.
MaxLen == 2
\* Most fetches of the mounted page awaiting their response at one time.
MaxInflight == 1

(***************************************************************************)
(* Program constants.                                                      *)
(***************************************************************************)
\* areaData: .slice(0, 8)
TopN == 8
\* areaData: name.length > 18 ? name.substring(0, 18) + ellipsis : name
LabelBudget == 18

\* Stand-in for U+2026 (HORIZONTAL ELLIPSIS), one UTF-16 code unit.
Ellipsis == "~"
\* Stand-in for U+2022 (BULLET), one UTF-16 code unit.
Bullet == "*"

(***************************************************************************)
(* JavaScript helpers.                                                     *)
(***************************************************************************)
Digits == {"0", "1", "2", "3", "4", "5", "6", "7", "8", "9"}

Char(s, i) == SubSeq(s, i, i)

\* Order of two decimal digits (one-character strings).
DigitVal(ch) ==
    CASE ch = "0" -> 0 [] ch = "1" -> 1 [] ch = "2" -> 2 [] ch = "3" -> 3
      [] ch = "4" -> 4 [] ch = "5" -> 5 [] ch = "6" -> 6 [] ch = "7" -> 7
      [] ch = "8" -> 8 [] ch = "9" -> 9

\* a < b for digit strings of the same length (lexicographic = numeric).
RECURSIVE DigitsLess(_, _)
DigitsLess(a, b) ==
    IF Len(a) = 0 THEN FALSE
    ELSE IF Char(a, 1) = Char(b, 1)
         THEN DigitsLess(SubSeq(a, 2, Len(a)), SubSeq(b, 2, Len(b)))
         ELSE DigitVal(Char(a, 1)) < DigitVal(Char(b, 1))

\* The largest array index, 2^32 - 2, as a canonical numeric string.
MaxArrayIndexText == "4294967294"

\* A property key that is an array index: a canonical numeric string
\* ("0", or digits without a leading zero) of value at most 2^32 - 2.
IsArrayIndex(key) ==
    /\ Len(key) >= 1
    /\ \A i \in 1..Len(key) : Char(key, i) \in Digits
    /\ (Len(key) > 1 => Char(key, 1) # "0")
    /\ \/ Len(key) < Len(MaxArrayIndexText)
       \/ /\ Len(key) = Len(MaxArrayIndexText)
          /\ ~DigitsLess(MaxArrayIndexText, key)

\* Numeric order of two array-index keys.
IndexLess(a, b) ==
    \/ Len(a) < Len(b)
    \/ Len(a) = Len(b) /\ DigitsLess(a, b)

\* The properties every object literal inherits from Object.prototype.
ObjectPrototypeKeys ==
    {"constructor", "hasOwnProperty", "isPrototypeOf", "propertyIsEnumerable",
     "toLocaleString", "toString", "valueOf", "__proto__",
     "__defineGetter__", "__defineSetter__", "__lookupGetter__",
     "__lookupSetter__"}

\* Position of own property `key` in `props`, 0 when it is not an own property.
IndexOfKey(props, key) ==
    IF \E i \in 1..Len(props) : props[i].key = key
    THEN CHOOSE i \in 1..Len(props) : props[i].key = key
    ELSE 0

RECURSIVE InsertIndexKey(_, _)
InsertIndexKey(sorted, p) ==
    IF sorted = <<>> THEN <<p>>
    ELSE IF IndexLess(p.key, Head(sorted).key)
         THEN <<p>> \o sorted
         ELSE <<Head(sorted)>> \o InsertIndexKey(Tail(sorted), p)

RECURSIVE SortIndexKeys(_)
SortIndexKeys(props) ==
    IF props = <<>> THEN <<>>
    ELSE InsertIndexKey(SortIndexKeys(SubSeq(props, 1, Len(props) - 1)),
                        props[Len(props)])

\* Object.entries(obj): the own properties, array-index keys first in
\* ascending numeric order, then the other string keys in creation order.
ObjectEntries(props) ==
    SortIndexKeys(SelectSeq(props, LAMBDA p : IsArrayIndex(p.key)))
      \o SelectSeq(props, LAMBDA p : ~IsArrayIndex(p.key))

\* Mutant of CountStatus: a status outside the three names counts as Pending.
CountStatus_UnknownAsPending(cs, s) ==
    Len(SelectSeq(cs, LAMBDA c :
          \/ c.status = s
          \/ /\ s = "Pending"
             /\ c.status \notin {"Pending", "In Progress", "Resolved"}))

\* complaints.filter(c => c.status === s).length
CountStatus(cs, s) == Len(SelectSeq(cs, LAMBDA c : c.status = s))

\* complaints.filter(c => c.priority === p).length
CountPriority(cs, p) == Len(SelectSeq(cs, LAMBDA c : c.priority = p))

\* Truthiness of a `number | null` value: null and 0 are falsy.
Truthy(n) == n # <<>> /\ n[1] # 0

\* Mutant of RoundPercent: Math.floor in place of Math.round.
RoundPercent_Floor(num, den) == (100 * num) \div den

\* The ratios num / den, in lowest terms, for which 100 * num / den is an
\* exact half and the double-precision product (num / den) * 100 falls just
\* below it: 23/40 * 100 = 57.49999999999999, 29/200 * 100 and
\* 57/200 * 100 and 113/200 * 100 likewise.  An exact half has a reduced
\* denominator of 8, 40 or 200; the quotient is correctly rounded, so the
\* product depends on the reduced ratio only, and for the other 92 ratios
\* with denominator 40 or 200 (and all with denominator 8) the product is
\* the half itself.
HalvesBelow == {<<23, 40>>, <<29, 200>>, <<57, 200>>, <<113, 200>>}

\* Math.round((num / den) * 100) for integers 0 <= num <= den, den > 0, in
\* double precision.  Math.round(x) is floor(x + 0.5), exactly.  Away from
\* an exact half the rounding error of the product (below 10^-13) cannot
\* move it across a half, so the result is that of exact arithmetic; on an
\* exact half it is the upper neighbour unless the product falls below.
RoundPercent(num, den) ==
    LET exact == (200 * num + den) \div (2 * den)
    IN  IF \E h \in HalvesBelow : num * h[2] = h[1] * den
        THEN exact - 1
        ELSE exact

(***************************************************************************)
(* RiskClassifier.  getRiskLevel is imported from "@/lib/classifyComplaint"*)
(* (line 215), which is not part of the source at hand; it is modelled     *)
(* from the specification: a score that weighs volume and high-priority    *)
(* concentration, two thresholds, monotone in both arguments, and Low for  *)
(* totalCount = 0.                                                         *)
(***************************************************************************)
RiskUpper == 5
RiskLower == 3

getRiskLevel(total, high) ==
    IF total = 0 THEN "Low"
    ELSE LET score == total + 2 * high
         IN  IF score >= RiskUpper THEN "High"
             ELSE IF score >= RiskLower THEN "Medium"
             ELSE "Low"

(***************************************************************************)
(* Derived values of a render.                                             *)
(***************************************************************************)
\* [...new Set(complaints.map(c => c.category))]: a Set keeps insertion order.
RECURSIVE categories(_)
categories(cs) ==
    IF cs = <<>> THEN <<>>
    ELSE LET before == categories(SubSeq(cs, 1, Len(cs) - 1))
             cat == cs[Len(cs)].category
         IN  IF \E i \in 1..Len(before) : before[i] = cat
             THEN before
             ELSE Append(before, cat)

\* Mutant of PassesFilters: a record passes when it matches any criterion.
PassesFilters_AnyCriterion(c, fc, fp, fs) ==
    \/ fc = "all" /\ fp = "all" /\ fs = "all"
    \/ fc # "all" /\ c.category = fc
    \/ fp # "all" /\ c.priority = fp
    \/ fs # "all" /\ c.status = fs

\* The predicate of complaints.filter(...) with its three early returns.
PassesFilters(c, fc, fp, fs) ==
    IF fc # "all" /\ c.category # fc THEN FALSE
    ELSE IF fp # "all" /\ c.priority # fp THEN FALSE
    ELSE IF fs # "all" /\ c.status # fs THEN FALSE
    ELSE TRUE

filtered(cs, fc, fp, fs) ==
    SelectSeq(cs, LAMBDA c : PassesFilters(c, fc, fp, fs))

resolutionRate(total, resolved) ==
    IF total > 0 THEN RoundPercent(resolved, total) ELSE 0

\* Text of an inherited Object.prototype member converted to a string by `+`:
\* the source text of a native function, under the function's own name
\* (Object.prototype.constructor is the function Object).
NativeText(key) ==
    LET name == IF key = "constructor" THEN "Object" ELSE key
    IN  "function " \o name \o "() { [native code] }"

\* count[c.category] = (count[c.category] || 0) + 1
CategoryCountStep(props, c) ==
    LET k == c.category
        i == IndexOfKey(props, k)
    IN  IF i # 0
        THEN IF k \in ObjectPrototypeKeys
             THEN [props EXCEPT ![i].value = @ \o "1"]
             ELSE [props EXCEPT ![i].value = @ + 1]
        ELSE IF k = "__proto__"
             \* the inherited setter ignores a string: no own property
             THEN props
        ELSE IF k \in ObjectPrototypeKeys
             \* the inherited member is truthy: member + 1 is a string
             THEN Append(props, [key |-> k, value |-> NativeText(k) \o "1"])
        ELSE Append(props, [key |-> k, value |-> 1])

RECURSIVE categoryCount(_)
categoryCount(cs) ==
    IF cs = <<>> THEN <<>>
    ELSE CategoryCountStep(categoryCount(SubSeq(cs, 1, Len(cs) - 1)),
                           cs[Len(cs)])

categoryData(cs) ==
    LET e == ObjectEntries(categoryCount(cs))
    IN  [i \in 1..Len(e) |-> [name |-> e[i].key, count |-> e[i].value]]

priorityData(cs) ==
    SelectSeq(
      << [name |-> "High",
          value |-> CountPriority(cs, "High")],
         [name |-> "Medium",
          value |-> CountPriority(cs, "Medium")],
         [name |-> "Low",
          value |-> CountPriority(cs, "Low")] >>,
      LAMBDA d : d.value > 0)

\* Mutant of statusData: the zero-count entries are kept.
statusData_KeepZero(cs) ==
    << [name |-> "Pending", value |-> CountStatus(cs, "Pending")],
       [name |-> "In Progress", value |-> CountStatus(cs, "In Progress")],
       [name |-> "Resolved", value |-> CountStatus(cs, "Resolved")] >>

statusData(cs) ==
    SelectSeq(
      << [name |-> "Pending",
          value |-> CountStatus(cs, "Pending")],
         [name |-> "In Progress",
          value |-> CountStatus(cs, "In Progress")],
         [name |-> "Resolved",
          value |-> CountStatus(cs, "Resolved")] >>,
      LAMBDA d : d.value > 0)

\* name.length > 18 ? name.substring(0, 18) + ellipsis : name
DisplayName(name) ==
    IF Len(name) > LabelBudget
    THEN SubSeq(name, 1, LabelBudget) \o Ellipsis
    ELSE name

\* Mutant of AreaCountStep: the areas are keyed by the display label.
AreaCountStep_ByDisplayName(props, c) ==
    LET key == DisplayName(c.location)
        i == IndexOfKey(props, key)
        base == IF i = 0
                THEN Append(props, [key |-> key, total |-> 0, high |-> 0])
                ELSE props
        j == IF i = 0 THEN Len(base) ELSE i
    IN  [base EXCEPT ![j].total = @ + 1,
                     ![j].high = IF c.priority = "High" THEN @ + 1 ELSE @]

\* One iteration of complaints.forEach over areaCount.
AreaCountStep(props, c) ==
    IF c.location \in ObjectPrototypeKeys
    \* areaCount[c.location] is the inherited member, which is truthy: no own
    \* property is created and both increments land on the inherited object.
    THEN props
    ELSE LET i == IndexOfKey(props, c.location)
             base == IF i = 0
                     THEN Append(props,
                                 [key |-> c.location, total |-> 0, high |-> 0])
                     ELSE props
             j == IF i = 0 THEN Len(base) ELSE i
         IN  [base EXCEPT ![j].total = @ + 1,
                          ![j].high = IF c.priority = "High" THEN @ + 1 ELSE @]

RECURSIVE areaCount(_)
areaCount(cs) ==
    IF cs = <<>> THEN <<>>
    ELSE AreaCountStep(areaCount(SubSeq(cs, 1, Len(cs) - 1)), cs[Len(cs)])

\* The arguments of the getRiskLevel calls of one render: one call per entry
\* of Object.entries(areaCount), made by .map before .sort and .slice.
AreaRiskCalls(cs) ==
    LET e == ObjectEntries(areaCount(cs))
    IN  [i \in 1..Len(e) |->
           [location |-> e[i].key, total |-> e[i].total, high |-> e[i].high]]

\* Array.prototype.sort((a, b) => b.count - a.count): a stable sort.
RECURSIVE InsertByCount(_, _)
InsertByCount(sorted, e) ==
    IF sorted = <<>> THEN <<e>>
    ELSE IF Head(sorted).count >= e.count
         THEN <<Head(sorted)>> \o InsertByCount(Tail(sorted), e)
         ELSE <<e>> \o sorted

RECURSIVE SortByCountDesc(_)
SortByCountDesc(seq) ==
    IF seq = <<>> THEN <<>>
    ELSE InsertByCount(SortByCountDesc(SubSeq(seq, 1, Len(seq) - 1)),
                       seq[Len(seq)])

\* array.slice(0, n)
Slice0(seq, n) == SubSeq(seq, 1, IF Len(seq) < n THEN Len(seq) ELSE n)

areaData(cs) ==
    LET e == ObjectEntries(areaCount(cs))
        mapped == [i \in 1..Len(e) |->
                     [name |-> DisplayName(e[i].key),
                      fullName |-> e[i].key,
                      count |-> e[i].total,
                      risk |-> getRiskLevel(e[i].total, e[i].high)]]
    IN  Slice0(SortByCountDesc(mapped), TopN)

mapMarkers(cs) ==
    LET located == SelectSeq(cs, LAMBDA c :
                                   Truthy(c.latitude) /\ Truthy(c.longitude))
    IN  [i \in 1..Len(located) |->
           [lat |-> located[i].latitude[1],
            lng |-> located[i].longitude[1],
            popup |-> "<strong>" \o located[i].title \o "</strong><br/>"
                        \o located[i].category \o " " \o Bullet \o " "
                        \o located[i].priority,
            priority |-> located[i].priority]]

\* Mutant of AreaInput: the area ranking is computed over the filtered view.
AreaInput_Filtered(cs, f) == f

\* The collection areaCount is built from: complaints.forEach, not filtered.
AreaInput(cs, f) == cs

\* The values AdminDashboard computes in one render (lines 253-312).
AdminRender(cs, fc, fp, fs) ==
    LET f == filtered(cs, fc, fp, fs)
        total == Len(cs)
        resolved == CountStatus(cs, "Resolved")
    IN  [categories |-> categories(cs),
         filtered |-> f,
         total |-> total,
         high |-> CountPriority(cs, "High"),
         resolved |-> resolved,
         pending |-> CountStatus(cs, "Pending"),
         inProgress |-> CountStatus(cs, "In Progress"),
         resolutionRate |-> resolutionRate(total, resolved),
         categoryData |-> categoryData(f),
         priorityData |-> priorityData(f),
         statusData |-> statusData(f),
         areaData |-> areaData(AreaInput(cs, f)),
         mapMarkers |-> mapMarkers(f)]

\* The values Dashboard computes in one render (lines 49-80).
DashboardRender(cs) ==
    LET pending == CountStatus(cs, "Pending")
        inProgress == CountStatus(cs, "In Progress")
        resolved == CountStatus(cs, "Resolved")
    IN  [total |-> Len(cs),
         pending |-> pending,
         inProgress |-> inProgress,
         resolved |-> resolved,
         statusData |->
            SelectSeq(<< [name |-> "Pending", value |-> pending],
                         [name |-> "In Progress", value |-> inProgress],
                         [name |-> "Resolved", value |-> resolved] >>,
                      LAMBDA d : d.value > 0),
         categoryData |-> categoryData(cs),
         priorityData |-> priorityData(cs),
         mapMarkers |-> mapMarkers(cs)]

Render(pg, cs, fc, fp, fs) ==
    IF pg = "admin" THEN AdminRender(cs, fc, fp, fs) ELSE DashboardRender(cs)

(***************************************************************************)
(* Inputs: the snapshots a fetch can deliver.                              *)
(***************************************************************************)
Rec(title, location, latitude, longitude, category, priority, status) ==
    [title |-> title, location |-> location, latitude |-> latitude,
     longitude |-> longitude, category |-> category, priority |-> priority,
     status |-> status]

\* Records that short snapshots are made of.  They cover: a null, a zero and
\* a non-zero coordinate; the three canonical priorities and statuses and a
\* value outside each set; location and category labels that are plain
\* text, strings of digits, or the name of an Object.prototype member; a
\* location longer than the display budget.
Pool ==
    { Rec("Garbage", "Zone B", <<0>>, <<77>>, "Roads", "Low", "Resolved"),
      Rec("Flooding", "110001", <<>>, <<77>>, "Water", "Medium",
          "In Progress"),
      Rec("Signal", "Old Town Market Row", <<12>>, <<0>>, "311", "Urgent",
          "Closed"),
      Rec("Lamp", "constructor", <<19>>, <<>>, "Water", "High", "Pending") }

\* The three-record scenario of the specification's end-to-end examples.
Scenario ==
    << Rec("Pothole", "Zone A", <<28>>, <<77>>, "Roads", "High", "Pending"),
       Rec("Leak", "Zone A", <<>>, <<77>>, "Water", "High", "Resolved"),
       Rec("Bin", "Zone B", <<13>>, <<80>>, "Roads", "Low", "Pending") >>

\* A snapshot with more distinct locations than the ranking keeps; two of
\* the locations agree on their first 18 characters, one has exactly 18.
\* 5 of its 9 records are resolved (55.6 percent rounds up).
Wide ==
    << Rec("W1", "Ward 1", <<21>>, <<71>>, "Roads", "Low", "Resolved"),
       Rec("W2", "Old Town Market Road", <<22>>, <<72>>, "Water", "High",
           "Pending"),
       Rec("W3", "Old Town Market Row", <<23>>, <<73>>, "Roads", "Medium",
           "Resolved"),
       Rec("W4", "Ward 18 North East", <<24>>, <<74>>, "Water", "Low",
           "In Progress"),
       Rec("W5", "Ward 5", <<25>>, <<75>>, "Roads", "High", "Resolved"),
       Rec("W6", "560034", <<26>>, <<76>>, "Water", "Medium", "Pending"),
       Rec("W7", "Ward 7", <<>>, <<>>, "Roads", "Low", "Resolved"),
       Rec("W8", "Ward 8", <<28>>, <<78>>, "Parks", "High", "In Progress"),
       Rec("W9", "Zone B", <<29>>, <<79>>, "Roads", "Low", "Resolved") >>

RECURSIVE SeqsUpTo(_, _)
SeqsUpTo(S, n) ==
    IF n = 0 THEN {<<>>}
    ELSE LET shorter == SeqsUpTo(S, n - 1)
         IN  shorter \cup {Append(q, x) : q \in shorter, x \in S}

Bases == {<<>>, Scenario, Wide}

Snapshots == {b \o q : b \in Bases, q \in SeqsUpTo(Pool, MaxLen)}

Pages == {"admin", "citizen"}

\* Values of useAuth().user: null (<<>>) or a user object.
Users == {<<>>, <<1>>}

(***************************************************************************)
(* State machine.                                                          *)
(***************************************************************************)
\* Fetches the effect of page pg issues when it runs with user u:
\* Dashboard's effect returns early without a user (if (!user) return;),
\* AdminDashboard's effect always queries.
FetchesIssued(pg, u) == IF pg = "citizen" /\ u = <<>> THEN 0 ELSE 1

\* A page as mounted: useState's initial values, the effect's first run,
\* and the first render.
Mounted(pg) ==
    /\ page' = pg
    /\ complaints' = <<>>
    /\ filterCategory' = "all"
    /\ filterPriority' = "all"
    /\ filterStatus' = "all"
    /\ inflight' = FetchesIssued(pg, user)
    /\ view' = Render(pg, <<>>, "all", "all", "all")
    /\ UNCHANGED user

Init ==
    /\ page \in Pages
    /\ user \in Users
    /\ complaints = <<>>
    /\ filterCategory = "all"
    /\ filterPriority = "all"
    /\ filterStatus = "all"
    /\ inflight = FetchesIssued(page, user)
    /\ view = Render(page, <<>>, "all", "all", "all")

\* useAuth delivers another value for `user` (sign-in, sign-out, or a new
\* object for a refreshed session).  The page renders again from unchanged
\* component state.  Dashboard's effect depends on [user] and runs again,
\* without a remount; AdminDashboard's effect (deps []) does not.
AuthChanged(u) ==
    /\ ~(user = <<>> /\ u = <<>>)
    /\ user' = u
    /\ IF page = "citizen"
       THEN /\ inflight + FetchesIssued(page, u) <= MaxInflight
            /\ inflight' = inflight + FetchesIssued(page, u)
       ELSE inflight' = inflight
    /\ view' = Render(page, complaints, filterCategory, filterPriority,
                      filterStatus)
    /\ UNCHANGED <<page, complaints, filterCategory, filterPriority,
                   filterStatus>>

\* The fetch's promise resolves with rows: if (data) setComplaints(data).
FetchResolved(data) ==
    /\ inflight > 0
    /\ inflight' = inflight - 1
    /\ complaints' = data
    /\ view' = Render(page, data, filterCategory, filterPriority,
                      filterStatus)
    /\ UNCHANGED <<page, user, filterCategory, filterPriority, filterStatus>>

\* The fetch's promise resolves with data = null (an error): no state change.
FetchFailed ==
    /\ inflight > 0
    /\ inflight' = inflight - 1
    /\ UNCHANGED <<page, user, complaints, filterCategory, filterPriority,
                   filterStatus, view>>

\* The options of the category select: "all" and the snapshot's categories.
CategoryOptions ==
    IF page = "admin"
    THEN {"all"} \cup {view.categories[i] : i \in 1..Len(view.categories)}
    ELSE {}

PriorityOptions == {"all", "High", "Medium", "Low"}

StatusOptions == {"all", "Pending", "In Progress", "Resolved"}

\* <Select value={filterCategory} onValueChange={setFilterCategory}>
SetFilterCategory(v) ==
    /\ page = "admin"
    /\ filterCategory' = v
    /\ view' = Render(page, complaints, v, filterPriority, filterStatus)
    /\ UNCHANGED <<page, user, complaints, filterPriority, filterStatus,
                   inflight>>

\* <Select value={filterPriority} onValueChange={setFilterPriority}>
SetFilterPriority(v) ==
    /\ page = "admin"
    /\ filterPriority' = v
    /\ view' = Render(page, complaints, filterCategory, v, filterStatus)
    /\ UNCHANGED <<page, user, complaints, filterCategory, filterStatus,
                   inflight>>

\* Mutant of SetFilterStatus: the render still reads the previous status.
SetFilterStatus_Stale(v) ==
    /\ page = "admin"
    /\ filterStatus' = v
    /\ view' = Render(page, complaints, filterCategory, filterPriority,
                      filterStatus)
    /\ UNCHANGED <<page, user, complaints, filterCategory, filterPriority,
                   inflight>>

\* <Select value={filterStatus} onValueChange={setFilterStatus}>
SetFilterStatus(v) ==
    /\ page = "admin"
    /\ filterStatus' = v
    /\ view' = Render(page, complaints, filterCategory, filterPriority, v)
    /\ UNCHANGED <<page, user, complaints, filterCategory, filterPriority,
                   inflight>>

\* The router replaces the mounted page by the other one (for AdminDashboard,
\* <Navigate to="/dashboard" replace /> when the user is no admin).
Navigate ==
    \E pg \in Pages : pg # page /\ Mounted(pg)

Next ==
    \/ \E data \in Snapshots : FetchResolved(data)
    \/ FetchFailed
    \/ \E v \in CategoryOptions : SetFilterCategory(v)
    \/ \E v \in PriorityOptions : SetFilterPriority(v)
    \/ \E v \in StatusOptions : SetFilterStatus(v)
    \/ \E u \in Users : AuthChanged(u)
    \/ Navigate

Spec == Init /\ [][Next]_vars

(***************************************************************************)
(* Vocabulary of the properties.  These operators state what the derived   *)
(* values are meant to be, by counting over index sets; none of them is    *)
(* used by the state machine.                                              *)
(***************************************************************************)
AdminShown == page = "admin"

\* The record collection the distributions and markers are computed over.
ViewInput == IF AdminShown THEN view.filtered ELSE complaints

\* The subsequence of seq at the positions in I, in increasing order.
RECURSIVE PickFrom(_, _, _)
PickFrom(seq, I, k) ==
    IF k > Len(seq) THEN <<>>
    ELSE (IF k \in I THEN <<seq[k]>> ELSE <<>>) \o PickFrom(seq, I, k + 1)

Pick(seq, I) == PickFrom(seq, I, 1)

RECURSIVE SumValues(_)
SumValues(seq) ==
    IF seq = <<>> THEN 0 ELSE Head(seq).value + SumValues(Tail(seq))

CanonicalStatuses == <<"Pending", "In Progress", "Resolved">>

CanonicalPriorities == <<"High", "Medium", "Low">>

InSeq(x, seq) == \E k \in 1..Len(seq) : seq[k] = x

\* First position at which `location` occurs in the snapshot.
FirstSeen(cs, location) ==
    CHOOSE i \in 1..Len(cs) :
        /\ cs[i].location = location
        /\ \A j \in 1..(i - 1) : cs[j].location # location

LocationCount(cs, location) ==
    Cardinality({i \in 1..Len(cs) : cs[i].location = location})

LocationHigh(cs, location) ==
    Cardinality({i \in 1..Len(cs) :
                    cs[i].location = location /\ cs[i].priority = "High"})

LocationsOf(cs) == {cs[i].location : i \in 1..Len(cs)}

\* A record matches every criterion that is not the sentinel "all".
MatchesCriteria(c) ==
    /\ filterCategory = "all" \/ c.category = filterCategory
    /\ filterPriority = "all" \/ c.priority = filterPriority
    /\ filterStatus = "all" \/ c.status = filterStatus

MatchingPositions == {i \in 1..Len(complaints) : MatchesCriteria(complaints[i])}

\* Both coordinates present and non-null.
Geolocatable(c) == c.latitude # <<>> /\ c.longitude # <<>>

(***************************************************************************)
(* C1.  Marker projection: the markers are exactly the geolocatable        *)
(* records of the input (both coordinates non-null, a coordinate 0         *)
(* included), one marker each, in input order, with lat/lng equal to the   *)
(* record's latitude/longitude.                                            *)
(* The code tests the coordinates for truthiness, so a record on the       *)
(* equator or the prime meridian (a coordinate 0) yields no marker.        *)
(***************************************************************************)
C1_MarkersOfGeolocatable ==
    LET src == ViewInput
        geo == Pick(src, {i \in 1..Len(src) : Geolocatable(src[i])})
    IN  /\ Len(view.mapMarkers) = Len(geo)
        /\ \A i \in 1..Len(view.mapMarkers) :
              i <= Len(geo) =>
                /\ view.mapMarkers[i].lat = geo[i].latitude[1]
                /\ view.mapMarkers[i].lng = geo[i].longitude[1]

(***************************************************************************)
(* C2.  Area ranking: at most 8 entries, one per distinct location among   *)
(* the highest-volume locations, ordered by count descending, and areas    *)
(* with equal count in the order in which their location was first seen in *)
(* the snapshot, for every location label.                                 *)
(* The code takes the areas from Object.entries, which lists labels that   *)
(* are array indices (strings of digits such as postal codes) first, in    *)
(* numeric order.  The claim is stated here for the snapshots in which no   *)
(* location names a member of Object.prototype: for such a label the code  *)
(* creates no area at all, which breaks the membership part as well.       *)
(***************************************************************************)
C2_RankingFirstSeenTies ==
    (AdminShown /\ LocationsOf(complaints) \cap ObjectPrototypeKeys = {}) =>
      LET a == view.areaData
          n == Len(a)
          locs == LocationsOf(complaints)
          kept == {a[i].fullName : i \in 1..n}
      IN  /\ n <= TopN
          /\ n = (IF Cardinality(locs) < TopN THEN Cardinality(locs) ELSE TopN)
          /\ kept \subseteq locs
          /\ \A i, j \in 1..n : i # j => a[i].fullName # a[j].fullName
          /\ \A i \in 1..n :
                a[i].fullName \in locs =>
                    a[i].count = LocationCount(complaints, a[i].fullName)
          /\ \A i \in 1..n : \A l \in locs \ kept :
                LocationCount(complaints, l) <= a[i].count
          /\ \A i, j \in 1..n : i < j => a[i].count >= a[j].count
          /\ \A i, j \in 1..n :
                (/\ i < j
                 /\ a[i].count = a[j].count
                 /\ a[i].fullName \in locs
                 /\ a[j].fullName \in locs)
                => FirstSeen(complaints, a[i].fullName)
                     < FirstSeen(complaints, a[j].fullName)

(***************************************************************************)
(* C3.  Filtering: a record is in the filtered view iff it equals every    *)
(* filter that is not "all"; the filtered view keeps the snapshot order;   *)
(* with all three filters "all" it equals the snapshot; and a change of    *)
(* filter leaves the snapshot as it was.                                   *)
(***************************************************************************)
C3_FilteredIsConjunction ==
    AdminShown =>
      /\ view.filtered = Pick(complaints, MatchingPositions)
      /\ (filterCategory = "all" /\ filterPriority = "all"
            /\ filterStatus = "all") => view.filtered = complaints

C3_FilterChangeKeepsSnapshot ==
    (/\ AdminShown
     /\ page' = page
     /\ \/ filterCategory' # filterCategory
        \/ filterPriority' # filterPriority
        \/ filterStatus' # filterStatus)
    => complaints' = complaints

C3_Filtering ==
    [](C3_FilteredIsConjunction) /\ [][C3_FilterChangeKeepsSnapshot]_vars

\* Two filters are set; some record passes, and some record is rejected
\* although it matches one of the two (AND, not OR).
C3_Witness ==
    /\ AdminShown
    /\ filterPriority # "all"
    /\ filterStatus # "all"
    /\ Len(view.filtered) > 0
    /\ \E i \in 1..Len(complaints) :
          /\ complaints[i].priority = filterPriority
          /\ complaints[i].status # filterStatus

(***************************************************************************)
(* C4.  The area ranking is independent of the filters: it counts every    *)
(* record of the snapshot and does not change when only a filter changes,  *)
(* while the status, priority and category distributions and the markers   *)
(* are computed over the records that pass the current filters.            *)
(***************************************************************************)
C4_ScopeOfDerivedValues ==
    AdminShown =>
      LET M == MatchingPositions
          sd == view.statusData
          pd == view.priorityData
          cd == view.categoryData
          mm == view.mapMarkers
          a == view.areaData
      IN  /\ \A k \in 1..Len(sd) :
                sd[k].value =
                  Cardinality({i \in M : complaints[i].status = sd[k].name})
          /\ \A k \in 1..Len(pd) :
                pd[k].value =
                  Cardinality({i \in M : complaints[i].priority = pd[k].name})
          /\ \A k \in 1..Len(cd) :
                cd[k].count =
                  Cardinality({i \in M : complaints[i].category = cd[k].name})
          /\ \A i \in M :
                \E k \in 1..Len(cd) : cd[k].name = complaints[i].category
          /\ Len(mm) <= Cardinality(M)
          /\ \A k \in 1..Len(mm) :
                \E i \in M :
                    /\ complaints[i].latitude = <<mm[k].lat>>
                    /\ complaints[i].longitude = <<mm[k].lng>>
                    /\ complaints[i].priority = mm[k].priority
          /\ \A k \in 1..Len(a) :
                /\ a[k].count = LocationCount(complaints, a[k].fullName)
                /\ a[k].risk =
                     getRiskLevel(a[k].count,
                                  LocationHigh(complaints, a[k].fullName))

C4_RankingFrame ==
    (AdminShown /\ page' = page /\ complaints' = complaints)
    => view'.areaData = view.areaData

C4_RankingIgnoresFilters ==
    [](C4_ScopeOfDerivedValues) /\ [][C4_RankingFrame]_vars

\* The scenario of the specification: priority = High leaves 2 of the 3
\* records, and the ranking still counts all 3.
C4_Witness ==
    /\ AdminShown
    /\ complaints = Scenario
    /\ filterPriority = "High"
    /\ filterCategory = "all"
    /\ filterStatus = "all"
    /\ Len(view.filtered) = 2
    /\ SumValues(view.statusData) = 2
    /\ Len(view.areaData) = 2
    /\ view.areaData[1].count + view.areaData[2].count = 3

(***************************************************************************)
(* C5.  Headline status counts: pending + inProgress + resolved <= total,  *)
(* with equality iff every record has one of the three canonical statuses; *)
(* a record with another status counts toward total only.                  *)
(***************************************************************************)
C5_StatusCounts ==
    LET canonical == {i \in 1..Len(complaints) :
                         InSeq(complaints[i].status, CanonicalStatuses)}
        sum == view.pending + view.inProgress + view.resolved
    IN  /\ view.total = Len(complaints)
        /\ sum <= view.total
        /\ sum = Cardinality(canonical)
        /\ (sum = view.total) <=> (canonical = 1..Len(complaints))

\* A snapshot with a record of another status beside canonical ones.
C5_Witness ==
    /\ \E i \in 1..Len(complaints) :
          ~InSeq(complaints[i].status, CanonicalStatuses)
    /\ view.pending + view.inProgress + view.resolved >= 1
    /\ view.pending + view.inProgress + view.resolved < view.total

(***************************************************************************)
(* C6.  Category distribution: exactly one entry per distinct category of  *)
(* the input, each count >= 1 and equal to the number of input records     *)
(* with that category, the counts summing to the input length, the entries *)
(* in the order in which each category first occurs, for every category    *)
(* label; empty input gives empty output.                                  *)
(* The code takes the entries from Object.entries, which lists labels that *)
(* are array indices (strings of digits) first, in numeric order.          *)
(***************************************************************************)
RECURSIVE SumCounts(_)
SumCounts(seq) ==
    IF seq = <<>> THEN 0 ELSE Head(seq).count + SumCounts(Tail(seq))

FirstOfCategory(cs, category) ==
    CHOOSE i \in 1..Len(cs) :
        /\ cs[i].category = category
        /\ \A j \in 1..(i - 1) : cs[j].category # category

C6_CategoryDistribution ==
    LET src == ViewInput
        d == view.categoryData
        cats == {src[i].category : i \in 1..Len(src)}
    IN  /\ Len(d) = Cardinality(cats)
        /\ \A k \in 1..Len(d) :
              /\ d[k].name \in cats
              /\ d[k].count >= 1
              /\ d[k].count =
                   Cardinality({i \in 1..Len(src) : src[i].category = d[k].name})
        /\ \A k, l \in 1..Len(d) : k # l => d[k].name # d[l].name
        /\ SumCounts(d) = Len(src)
        /\ \A k, l \in 1..Len(d) :
              (k < l /\ d[k].name \in cats /\ d[l].name \in cats)
              => FirstOfCategory(src, d[k].name) < FirstOfCategory(src, d[l].name)
        /\ (src = <<>> => d = <<>>)

(***************************************************************************)
(* C7.  Status and priority distributions: the subsequence of              *)
(* [Pending, In Progress, Resolved], resp. [High, Medium, Low], of the     *)
(* labels that occur in the input, in that order; each value is >= 1 and   *)
(* the number of input records with the label; the values sum to the input *)
(* length minus the number of records outside the canonical set.           *)
(***************************************************************************)
C7_CanonicalDistributions ==
    LET src == ViewInput
        n == Len(src)
        sCount(k) ==
            Cardinality({i \in 1..n : src[i].status = CanonicalStatuses[k]})
        pCount(k) ==
            Cardinality({i \in 1..n : src[i].priority = CanonicalPriorities[k]})
        sAll == [k \in 1..3 |->
                   [name |-> CanonicalStatuses[k], value |-> sCount(k)]]
        pAll == [k \in 1..3 |->
                   [name |-> CanonicalPriorities[k], value |-> pCount(k)]]
    IN  /\ view.statusData = Pick(sAll, {k \in 1..3 : sCount(k) >= 1})
        /\ view.priorityData = Pick(pAll, {k \in 1..3 : pCount(k) >= 1})
        /\ \A k \in 1..Len(view.statusData) : view.statusData[k].value >= 1
        /\ \A k \in 1..Len(view.priorityData) : view.priorityData[k].value >= 1
        /\ SumValues(view.statusData) =
             n - Cardinality({i \in 1..n :
                                ~InSeq(src[i].status, CanonicalStatuses)})
        /\ SumValues(view.priorityData) =
             n - Cardinality({i \in 1..n :
                                ~InSeq(src[i].priority, CanonicalPriorities)})

\* In Progress does not occur, some priority is outside the canonical set.
C7_Witness ==
    /\ Len(view.statusData) = 2
    /\ view.statusData[1].name = "Pending"
    /\ view.statusData[2].name = "Resolved"
    /\ \E i \in 1..Len(ViewInput) :
          ~InSeq(ViewInput[i].priority, CanonicalPriorities)
    /\ SumValues(view.priorityData) < Len(ViewInput)
    /\ Len(view.priorityData) >= 1

(***************************************************************************)
(* C8.  Resolution rate: a whole number in 0..100; 0 when total = 0;       *)
(* otherwise resolved / total as a percentage rounded to the nearest whole *)
(* percent (total = 4, resolved = 1 gives 25).                             *)
(***************************************************************************)
C8_ResolutionRate ==
    AdminShown =>
      LET total == Len(complaints)
          res == Cardinality({i \in 1..total :
                                 complaints[i].status = "Resolved"})
          r == view.resolutionRate
      IN  /\ r \in 0..100
          /\ total = 0 => r = 0
          /\ total > 0 =>
                /\ 2 * (100 * res - r * total) <= total
                /\ 2 * (r * total - 100 * res) <= total

C8_Witness ==
    /\ AdminShown
    /\ Len(complaints) = 4
    /\ view.total = 4
    /\ view.resolved = 1
    /\ view.resolutionRate = 25

(***************************************************************************)
(* C9.  Snapshot atomicity: after any interleaving of fetch results and    *)
(* filter changes, every value of the rendered bundle is the one computed  *)
(* from the current snapshot and the current filter setting; nothing is    *)
(* carried over from an earlier render.                                    *)
(***************************************************************************)
C9_BundleOfCurrentState ==
    view = Render(page, complaints, filterCategory, filterPriority,
                  filterStatus)

\* A snapshot has arrived and two filters have been changed since.
C9_Witness ==
    /\ AdminShown
    /\ inflight = 0
    /\ Len(complaints) > 0
    /\ filterStatus # "all"
    /\ filterCategory # "all"
    /\ Len(view.filtered) >= 1
    /\ Len(view.filtered) < Len(complaints)

(***************************************************************************)
(* C10.  Truncation of the display label is cosmetic: every area is        *)
(* grouped, counted and classified by its full location string; the        *)
(* display label is the full label when it has at most 18 characters, else *)
(* its first 18 characters followed by one ellipsis character; order and   *)
(* membership of the ranking are decided by the counts alone.              *)
(***************************************************************************)
C10_TruncationIsCosmetic ==
    AdminShown =>
      LET a == view.areaData
          n == Len(a)
          kept == {a[i].fullName : i \in 1..n}
      IN  /\ \A i \in 1..n :
                /\ a[i].count >= 1
                /\ a[i].count = LocationCount(complaints, a[i].fullName)
                /\ a[i].risk =
                     getRiskLevel(a[i].count,
                                  LocationHigh(complaints, a[i].fullName))
                /\ Len(a[i].fullName) <= LabelBudget
                     => a[i].name = a[i].fullName
                /\ Len(a[i].fullName) > LabelBudget
                     => /\ Len(a[i].name) = LabelBudget + 1
                        /\ SubSeq(a[i].name, 1, LabelBudget)
                             = SubSeq(a[i].fullName, 1, LabelBudget)
                        /\ SubSeq(a[i].name, LabelBudget + 1, LabelBudget + 1)
                             = Ellipsis
          /\ \A i, j \in 1..n : i # j => a[i].fullName # a[j].fullName
          /\ \A i, j \in 1..n : i < j => a[i].count >= a[j].count
          /\ \A i \in 1..n :
                \A l \in (LocationsOf(complaints) \ kept) \ ObjectPrototypeKeys :
                    LocationCount(complaints, l) <= a[i].count

\* Two ranked areas with the same display label, distinct full labels and
\* distinct counts.
C10_Witness ==
    /\ AdminShown
    /\ \E i, j \in 1..Len(view.areaData) :
          /\ i # j
          /\ view.areaData[i].name = view.areaData[j].name
          /\ view.areaData[i].fullName # view.areaData[j].fullName
          /\ view.areaData[i].count # view.areaData[j].count

(***************************************************************************)
(* C11.  Classifier precondition: every call getRiskLevel(total, high) of  *)
(* the area aggregation has 1 <= total and 0 <= high <= total, total being *)
(* the number of snapshot records with that location and high the number   *)
(* of those with priority "High"; and the totals of all areas, before the  *)
(* truncation to 8, sum to the snapshot length.                            *)
(* The code creates no area for a location that names a member of          *)
(* Object.prototype (areaCount[c.location] is then the inherited, truthy   *)
(* member), so the records with such a location are in no area's total.    *)
(***************************************************************************)
RECURSIVE SumTotals(_)
SumTotals(seq) ==
    IF seq = <<>> THEN 0 ELSE Head(seq).total + SumTotals(Tail(seq))

C11_ClassifierPrecondition ==
    AdminShown =>
      LET calls == AreaRiskCalls(complaints)
      IN  /\ \A k \in 1..Len(calls) :
                /\ 1 <= calls[k].total
                /\ 0 <= calls[k].high
                /\ calls[k].high <= calls[k].total
                /\ calls[k].total = LocationCount(complaints, calls[k].location)
                /\ calls[k].high = LocationHigh(complaints, calls[k].location)
          /\ SumTotals(calls) = Len(complaints)

====
